---- MODULE Spec2Model ----
(***************************************************************************)
(* TranscriptionTools-MCP: the two text pipelines of src/src/tools/        *)
(* summary.ts.                                                             *)
(*                                                                         *)
(*   formatTranscript  timestamp-gap driven reassembly of Segments         *)
(*   summaryText       sentence extraction, scoring, greedy selection and  *)
(*                     order restoration under a length constraint         *)
(*                                                                         *)
(* A text is a sequence of one-character strings.  The letter "W" stands   *)
(* for a word of WideRun letters, so that sentence lengths which move the  *)
(* importance ranking are reachable with short sequences; every length     *)
(* the code takes (String.length) is taken with StrLen.                    *)
(***************************************************************************)
EXTENDS Integers, Sequences, FiniteSets, TLC

VARIABLES
    \* ---- formatTranscript (summary.ts:186-283) ----
    segments,        \* Array<{time, text}> after the parse loop
    paragraph_gap,   \* params.paragraph_gap
    line_gap,        \* params.line_gap
    formattedText,   \* let formattedText
    lastTime,        \* let lastTime
    i,               \* loop index of the assembly loop (0-based, as in the code)
    breaks,          \* observation: what the loop put before each segment text
    fpc,             \* position in formatTranscript
    \* ---- summaryText (summary.ts:19-167) ----
    input_text,      \* params.input_text (the text that resolution yields)
    constraint_type, \* params.constraint_type
    constraint_value,\* params.constraint_value
    textContent,     \* const textContent
    targetLength,    \* let targetLength, in tenths (0.3*n is kept as 3*n)
    sentences,       \* const sentences
    sentenceScores,  \* const sentenceScores, after the sort
    selectedSentences, \* let selectedSentences
    currentLength,   \* let currentLength
    acceptedIdx,     \* observation: original index of each accepted item
    cursor,          \* items of sentenceScores the for-of loop has taken
    sortedIndexes,   \* const sortedIndexes
    constraintDetails, \* const constraintDetails, once built (else <<>>)
    summary,         \* let summary
    result,          \* what the call returned or threw
    spc,             \* position in summaryText
    fault,           \* observation: the message a collaborator threw (else <<>>)
    \* ---- formatTranscript, from the call to the parse loop ----
    transcript,      \* const textContent of formatTranscript
    lines,           \* const lines
    lineIdx,         \* lines the parse loop has taken
    fresult,         \* what formatTranscript returned or threw
    calls,           \* formatTranscript calls started so far
    returned,        \* observation: (text, gaps, output) of every call that returned
    \* ---- the CallTool request handler (index.ts:149-232) ----
    request,         \* request.params: the tool name and its arguments
    thrown,          \* the message of the error thrown inside the try block (else <<>>)
    hpc,             \* position in the handler
    responses,       \* observation: (request, fault, outcome) of every handled call
    \* ---- repairText, getRepairLog and the Logger (repair.ts) ----
    clock,           \* wall clock: the second of 2024-12-06T14:30 it shows
    files,           \* the file system: content by resolved path
    inv,             \* the tool invocations in flight, by slot
    started,         \* invocations started so far
    writes,          \* observation: (path, invocation, second its session id was taken)
    logged,          \* observation: session ids whose repair log write completed
    lookups          \* observation: (session_id, result, whether logged) of getRepairLog

fvars == <<segments, paragraph_gap, line_gap, formattedText, lastTime, i, breaks, fpc>>
svars == <<input_text, constraint_type, constraint_value, textContent, targetLength,
           sentences, sentenceScores, selectedSentences, currentLength, acceptedIdx,
           cursor, sortedIndexes, constraintDetails, summary, result, spc>>
pvars == <<transcript, lines, lineIdx, fresult>>
dvars == <<calls, returned>>
xvars == <<fault, pvars, dvars>>
hvars == <<request, thrown, hpc, responses>>
rvars == <<clock, files, inv, started, writes, logged, lookups>>
nvars == <<hvars, rvars>>
vars == <<fvars, svars, xvars, nvars>>

-----------------------------------------------------------------------------
(* Bounds *)

MaxSegs == 3        \* Segments per transcript
MaxTime == 3        \* largest Segment time, seconds
MaxGapParam == 1    \* largest paragraph_gap / line_gap
MaxLen == 6         \* characters per document
MaxPieces == 4      \* pieces per transcript
MaxCalls == 3       \* formatTranscript calls in a row
MaxRequests == 2    \* tool calls the handler takes in a row
MaxClock == 11      \* last second of the wall clock
MaxInvocations == 3 \* repair_text and get_repair_log invocations
WideRun == 90       \* letters in the word written "W"

-----------------------------------------------------------------------------
(* Strings *)

NL == "\n"
SP == " "
Whitespace == {SP, NL}
Terminators == {".", "!", "?"}
LowerCase == {"a", "b"}

\* String.prototype.length
RECURSIVE StrLen(_)
StrLen(s) ==
    IF s = <<>> THEN 0
    ELSE (IF Head(s) = "W" THEN WideRun ELSE 1) + StrLen(Tail(s))

\* String.prototype.trim
RECURSIVE TrimLeft(_)
TrimLeft(s) ==
    IF s # <<>> /\ Head(s) \in Whitespace THEN TrimLeft(Tail(s)) ELSE s

RECURSIVE TrimRight(_)
TrimRight(s) ==
    IF s # <<>> /\ s[Len(s)] \in Whitespace
    THEN TrimRight(SubSeq(s, 1, Len(s) - 1)) ELSE s

Trim(s) == TrimRight(TrimLeft(s))

\* s.split(/\s+/): the pieces between maximal whitespace runs, empty leading
\* and trailing pieces included; split of "" is [""].
RECURSIVE SplitFrom(_, _, _)
SplitFrom(s, cur, inWs) ==
    IF s = <<>> THEN <<cur>>
    ELSE IF Head(s) \in Whitespace
         THEN IF inWs THEN SplitFrom(Tail(s), cur, TRUE)
              ELSE <<cur>> \o SplitFrom(Tail(s), <<>>, TRUE)
         ELSE SplitFrom(Tail(s), Append(cur, Head(s)), FALSE)

SplitWs(s) == SplitFrom(s, <<>>, FALSE)

\* The whitespace-separated tokens of a text, in order
Tokens(s) == SelectSeq(SplitWs(s), LAMBDA p : p # <<>>)

\* Array.prototype.join(' ')
RECURSIVE JoinSp(_)
JoinSp(ss) ==
    IF ss = <<>> THEN <<>>
    ELSE IF Len(ss) = 1 THEN ss[1]
    ELSE ss[1] \o <<SP>> \o JoinSp(Tail(ss))

\* All texts over alphabet A of at most n characters
RECURSIVE TextsUpTo(_, _)
TextsUpTo(A, n) ==
    IF n = 0 THEN {<<>>}
    ELSE LET shorter == TextsUpTo(A, n - 1)
         IN  shorter \cup {Append(t, c) : t \in shorter, c \in A}

-----------------------------------------------------------------------------
(* formatTranscript: the assembly loop, summary.ts:232-279 *)

ParagraphBreak == <<NL, NL>>
LineBreak == <<NL>>
SingleSpace == <<SP>>

\* Rule 3 (summary.ts:254-273): the join inside one line
Rule3BrokenJoin(ft, text) ==
    LET lastChar == IF ft = <<>> THEN "" ELSE ft[Len(ft)]
        endsWithSentenceMarker == ft # <<>> /\ ft[Len(ft)] \in Terminators
        startsWithLowerCase == text # <<>> /\ text[1] \in LowerCase
    IN  IF endsWithSentenceMarker THEN SingleSpace
        ELSE IF lastChar \in {",", ";", ":"} THEN SingleSpace
        ELSE IF startsWithLowerCase THEN <<>>
        ELSE SingleSpace

Rule3Join(ft, text) ==
    LET lastChar == IF ft = <<>> THEN "" ELSE ft[Len(ft)]
        endsWithSentenceMarker == ft # <<>> /\ ft[Len(ft)] \in Terminators
        startsWithLowerCase == text # <<>> /\ text[1] \in LowerCase
    IN  IF endsWithSentenceMarker THEN SingleSpace
        ELSE IF lastChar \in {",", ";", ":"} THEN SingleSpace
        ELSE IF startsWithLowerCase THEN SingleSpace
        ELSE SingleSpace

\* summary.ts:243-273: what goes between formattedText and segment.text
SeparatorGeq(ft, text, timeGap, pg, lg) ==
    IF timeGap >= pg THEN ParagraphBreak
    ELSE IF timeGap >= lg THEN LineBreak
    ELSE Rule3Join(ft, text)

SeparatorLineFirst(ft, text, timeGap, pg, lg) ==
    IF timeGap > lg THEN LineBreak
    ELSE IF timeGap > pg THEN ParagraphBreak
    ELSE Rule3Join(ft, text)

Separator(ft, text, timeGap, pg, lg) ==
    IF timeGap > pg THEN ParagraphBreak
    ELSE IF timeGap > lg THEN LineBreak
    ELSE Rule3Join(ft, text)

\* Segment texts: what the parse loop can leave in segment.text (no line
\* break inside; a continuation line can leave spaces at either end)
SegTexts ==
    { <<>>, <<"B", ".">>, <<"a", ",">>, <<"a", SP, "b">> }

Segment == [time : 0..MaxTime, text : SegTexts]

RECURSIVE SeqsUpTo(_, _)
SeqsUpTo(S, n) ==
    IF n = 0 THEN {<<>>}
    ELSE LET shorter == SeqsUpTo(S, n - 1)
         IN  shorter \cup {Append(q, x) : q \in shorter, x \in S}

FormatIdle ==
    /\ segments = <<>>
    /\ paragraph_gap = 0
    /\ line_gap = 0
    /\ formattedText = <<>>
    /\ lastTime = -1
    /\ i = 0
    /\ breaks = <<>>
    /\ fpc = "idle"
    /\ transcript = <<>>
    /\ lines = <<>>
    /\ lineIdx = 0
    /\ fresult = [kind |-> "none"]
    /\ calls = 0
    /\ returned = <<>>

\* summary.ts:232-234, with the segments the parse loop produced (at least one:
\* split('\n') never returns an empty array)
FormatInit ==
    /\ segments \in (SeqsUpTo(Segment, MaxSegs) \ {<<>>})
    /\ paragraph_gap \in 0..MaxGapParam
    /\ line_gap \in 0..MaxGapParam
    /\ formattedText = <<>>
    /\ lastTime = -1
    /\ i = 0
    /\ breaks = <<>>
    /\ fpc = "loop"
    /\ transcript = <<>>
    /\ lines = <<>>
    /\ lineIdx = 0
    /\ fresult = [kind |-> "none"]
    /\ calls = 1
    /\ returned = <<>>

\* summary.ts:240-241 and 276: i === 0
FormatFirst ==
    /\ fpc = "loop"
    /\ i = 0
    /\ i < Len(segments)
    /\ formattedText' = segments[1].text
    /\ breaks' = <<(<<>>)>>
    /\ lastTime' = segments[1].time
    /\ i' = 1
    /\ UNCHANGED <<segments, paragraph_gap, line_gap, fpc>>
    /\ UNCHANGED <<svars, xvars, nvars>>

\* summary.ts:242-276: i > 0
FormatNext ==
    /\ fpc = "loop"
    /\ i > 0
    /\ i < Len(segments)
    /\ LET segment == segments[i + 1]
           timeGap == segment.time - lastTime
           sep == Separator(formattedText, segment.text, timeGap, paragraph_gap, line_gap)
       IN  /\ formattedText' = formattedText \o sep \o segment.text
           /\ breaks' = Append(breaks, sep)
           /\ lastTime' = segment.time
    /\ i' = i + 1
    /\ UNCHANGED <<segments, paragraph_gap, line_gap, fpc>>
    /\ UNCHANGED <<svars, xvars, nvars>>

\* summary.ts:236 (loop exit) and 279
FormatReturn ==
    /\ fpc = "loop"
    /\ i >= Len(segments)
    /\ fpc' = "done"
    /\ fresult' = [kind |-> "ok", formatted_text |-> formattedText]
    /\ returned' = Append(returned, [text |-> transcript, paragraph_gap |-> paragraph_gap,
                                    line_gap |-> line_gap, formatted_text |-> formattedText])
    /\ UNCHANGED <<segments, paragraph_gap, line_gap, formattedText, lastTime, i, breaks>>
    /\ UNCHANGED <<svars, fault, transcript, lines, lineIdx, calls, nvars>>

-----------------------------------------------------------------------------
(* formatTranscript: the call and the parse loop, summary.ts:186-230 *)

Digits == {"0", "1", "2", "3", "4", "5", "6", "7", "8", "9"}

\* the value of one decimal digit
DigitValue(c) ==
    CASE c = "0" -> 0 [] c = "1" -> 1 [] c = "2" -> 2 [] c = "3" -> 3 [] c = "4" -> 4
      [] c = "5" -> 5 [] c = "6" -> 6 [] c = "7" -> 7 [] c = "8" -> 8 [] c = "9" -> 9

\* parseInt(dd, 10) of the two digits at positions p and p + 1
ParseInt2(s, p) == 10 * DigitValue(s[p]) + DigitValue(s[p + 1])

\* summary.ts:207: /\[(\d{2}):(\d{2}):(\d{2})\]/ matches at position p
StampAt(s, p) ==
    /\ p + 9 <= Len(s)
    /\ s[p] = "["
    /\ s[p + 1] \in Digits /\ s[p + 2] \in Digits
    /\ s[p + 3] = ":"
    /\ s[p + 4] \in Digits /\ s[p + 5] \in Digits
    /\ s[p + 6] = ":"
    /\ s[p + 7] \in Digits /\ s[p + 8] \in Digits
    /\ s[p + 9] = "]"

\* summary.ts:207: line.match(...) is not anchored, so it finds the leftmost
\* position with a timestamp; 0 when there is none (match is null)
MatchPos(s) ==
    IF \E p \in 1..Len(s) : StampAt(s, p)
    THEN CHOOSE p \in 1..Len(s) : StampAt(s, p) /\ \A q \in 1..(p - 1) : ~StampAt(s, q)
    ELSE 0

\* textContent.split('\n')
RECURSIVE SplitNLFrom(_, _)
SplitNLFrom(s, cur) ==
    IF s = <<>> THEN <<cur>>
    ELSE IF Head(s) = NL THEN <<cur>> \o SplitNLFrom(Tail(s), <<>>)
    ELSE SplitNLFrom(Tail(s), Append(cur, Head(s)))

SplitNL(s) == SplitNLFrom(s, <<>>)

\* summary.ts:205-229: the body of the parse loop for one line
ParseLine(segs, line) ==
    LET p == MatchPos(line)
    IN  IF p # 0
        THEN LET hours == ParseInt2(line, p + 1)
                 minutes == ParseInt2(line, p + 4)
                 seconds == ParseInt2(line, p + 7)
                 text == Trim(SubSeq(line, p + 10, Len(line)))
                 timeInSeconds == hours * 3600 + minutes * 60 + seconds
             IN  Append(segs, [time |-> timeInSeconds, text |-> text])
        ELSE IF Len(segs) > 0
             THEN [segs EXCEPT ![Len(segs)].text = @ \o <<SP>> \o Trim(line)]
             ELSE Append(segs, [time |-> 0, text |-> Trim(line)])

\* an array that outlives the call
KeptSegments(previous) == previous

\* summary.ts:202: const segments = [] of a new call; previous is what the
\* preceding call left in its own array
FreshSegments(previous) == <<>>

\* summary.ts:281
FormattingFailed(message) ==
    [kind |-> "error", message |-> <<"Formatting process failed: ", message>>]

\* pieces transcripts are put together from
Stamp2 == <<"[", "0", "0", ":", "0", "0", ":", "0", "2", "]">>
Stamp3723 == <<"[", "0", "1", ":", "0", "2", ":", "0", "3", "]">>
BadStamp == <<"[", "0", ":", "0", ":", "2", "]">>
Stamp7 == <<"[", "0", "0", ":", "0", "0", ":", "0", "7", "]">>
Pieces == {Stamp2, Stamp3723, BadStamp, <<"a">>, <<SP>>, <<NL>>}

RECURSIVE PieceTexts(_)
PieceTexts(n) ==
    IF n = 0 THEN {<<>>}
    ELSE LET shorter == PieceTexts(n - 1)
         IN  shorter \cup {t \o q : t \in shorter, q \in Pieces}

\* a call of formatTranscript with transcript as the text resolution yields
TranscriptInit ==
    /\ transcript \in PieceTexts(MaxPieces)
    /\ paragraph_gap \in 0..MaxGapParam
    /\ line_gap \in 0..MaxGapParam
    /\ segments = <<>>
    /\ formattedText = <<>>
    /\ lastTime = -1
    /\ i = 0
    /\ breaks = <<>>
    /\ lines = <<>>
    /\ lineIdx = 0
    /\ fresult = [kind |-> "none"]
    /\ calls = 1
    /\ returned = <<>>
    /\ fpc = "resolve"

\* summary.ts:188-202 with file-handler.ts:48-53
FormatResolve ==
    /\ fpc = "resolve"
    /\ lines' = SplitNL(Trim(transcript))
    /\ lineIdx' = 0
    /\ segments' = FreshSegments(segments)
    /\ fpc' = "parse"
    /\ UNCHANGED <<paragraph_gap, line_gap, formattedText, lastTime, i, breaks>>
    /\ UNCHANGED <<svars, fault, transcript, fresult, dvars, nvars>>

\* summary.ts:196 and 280-281 with file-handler.ts:18-24: is_file_path is true
\* and the file cannot be read
FormatResolveFails ==
    /\ fpc = "resolve"
    /\ fresult' = FormattingFailed("Failed to read file")
    /\ fpc' = "done"
    /\ UNCHANGED <<segments, paragraph_gap, line_gap, formattedText, lastTime, i, breaks>>
    /\ UNCHANGED <<svars, fault, transcript, lines, lineIdx, dvars, nvars>>

\* summary.ts:205-230: one line of the parse loop
FormatParseLine ==
    /\ fpc = "parse"
    /\ lineIdx < Len(lines)
    /\ segments' = ParseLine(segments, lines[lineIdx + 1])
    /\ lineIdx' = lineIdx + 1
    /\ UNCHANGED <<paragraph_gap, line_gap, formattedText, lastTime, i, breaks, fpc>>
    /\ UNCHANGED <<svars, fault, transcript, lines, fresult, dvars, nvars>>

\* summary.ts:232-234: the parse loop is over
FormatParseEnd ==
    /\ fpc = "parse"
    /\ lineIdx >= Len(lines)
    /\ formattedText' = <<>>
    /\ lastTime' = -1
    /\ i' = 0
    /\ breaks' = <<>>
    /\ fpc' = "loop"
    /\ UNCHANGED <<segments, paragraph_gap, line_gap>>
    /\ UNCHANGED <<svars, xvars, nvars>>

\* summary.ts:191-192: the parameter defaults
defaultParagraphGap == 8
defaultLineGap == 4

\* the parameter sets of the calls made in a row: two timestamped lines five
\* seconds apart under the default and under narrower gaps, a continuation
\* line, and a text before any timestamp
CallInputs ==
    { [text |-> Stamp2 \o <<SP, "a", NL>> \o Stamp7 \o <<SP, "b">>,
       paragraph_gap |-> defaultParagraphGap, line_gap |-> defaultLineGap],
      [text |-> Stamp2 \o <<SP, "a", NL>> \o Stamp7 \o <<SP, "b">>,
       paragraph_gap |-> defaultLineGap, line_gap |-> 2],
      [text |-> Stamp2 \o <<SP, "a", ".", NL, "b">>,
       paragraph_gap |-> defaultParagraphGap, line_gap |-> defaultLineGap],
      [text |-> <<"a", NL>> \o Stamp3723 \o <<"b">>,
       paragraph_gap |-> defaultParagraphGap, line_gap |-> defaultLineGap] }

\* summary.ts:186-193: the next call of formatTranscript starts; what the
\* previous call left behind is still in memory
FormatCall ==
    /\ fpc \in {"idle", "done"}
    /\ calls < MaxCalls
    /\ \E in \in CallInputs :
          /\ transcript' = in.text
          /\ paragraph_gap' = in.paragraph_gap
          /\ line_gap' = in.line_gap
    /\ calls' = calls + 1
    /\ fresult' = [kind |-> "none"]
    /\ fpc' = "resolve"
    /\ UNCHANGED <<segments, formattedText, lastTime, i, breaks, lines, lineIdx, returned>>
    /\ UNCHANGED <<svars, fault, nvars>>

-----------------------------------------------------------------------------
(* summaryText, summary.ts:19-167 *)

DocAlphabet == {"a", "W", SP, "."}
ConstraintTypes == {"time", "chars", "words", "null"}
\* constraint_value: null is <<>>, the number v is <<v>>
NoValue == <<>>
ConstraintValues == {NoValue} \cup {<<v>> : v \in {-1, 0, 1, 2, 4, 93, 200}}

baseRate == 150

\* JavaScript truthiness of constraint_value (number | null)
Truthy(value) == value # NoValue /\ value[1] # 0

\* summary.ts:40-41
contentLength(text) == StrLen(text)
wordCount(text) == Len(SplitWs(text))

\* summary.ts:44-56, in tenths
TargetLengthCharsByWords(type, value, text) ==
    IF type = "time"
    THEN IF Truthy(value) THEN (value[1] * baseRate * 10) \div 60 ELSE wordCount(text) * 3
    ELSE IF type = "chars"
    THEN IF Truthy(value) THEN value[1] * 10 ELSE wordCount(text) * 3
    ELSE IF type = "words"
    THEN IF Truthy(value) THEN value[1] * 10 ELSE wordCount(text) * 3
    ELSE wordCount(text) * 3

TargetLength(type, value, text) ==
    IF type = "time"
    THEN IF Truthy(value) THEN (value[1] * baseRate * 10) \div 60 ELSE wordCount(text) * 3
    ELSE IF type = "chars"
    THEN IF Truthy(value) THEN value[1] * 10 ELSE contentLength(text) * 3
    ELSE IF type = "words"
    THEN IF Truthy(value) THEN value[1] * 10 ELSE wordCount(text) * 3
    ELSE wordCount(text) * 3

\* number of leading characters of s that are (in = TRUE) or are not
\* (in = FALSE) sentence terminators
RECURSIVE RunLen(_, _)
RunLen(s, in) ==
    IF s # <<>> /\ ((Head(s) \in Terminators) = in)
    THEN 1 + RunLen(Tail(s), in) ELSE 0

\* summary.ts:78: text.match(/[^.!?]+[.!?]+/g) || [], as the <<first, last>>
\* positions of each match; off is the number of characters before s
RECURSIVE MatchSpansNoSkip(_, _)
MatchSpansNoSkip(s, off) ==
    LET body == RunLen(s, FALSE)
        s2 == SubSeq(s, body + 1, Len(s))
        terms == RunLen(s2, TRUE)
    IN  IF terms = 0 THEN <<>>
        ELSE <<(<<off + 1, off + body + terms>>)>>
                \o MatchSpansNoSkip(SubSeq(s2, terms + 1, Len(s2)), off + body + terms)

RECURSIVE MatchSpans(_, _)
MatchSpans(s, off) ==
    LET skip == RunLen(s, TRUE)
        s1 == SubSeq(s, skip + 1, Len(s))
        body == RunLen(s1, FALSE)
        s2 == SubSeq(s1, body + 1, Len(s1))
        terms == RunLen(s2, TRUE)
    IN  IF body = 0 \/ terms = 0 THEN <<>>
        ELSE <<(<<off + skip + 1, off + skip + body + terms>>)>>
                \o MatchSpans(SubSeq(s2, terms + 1, Len(s2)), off + skip + body + terms)

MatchSentences(text) ==
    LET spans == MatchSpans(text, 0)
    IN  [k \in 1..Len(spans) |-> SubSeq(text, spans[k][1], spans[k][2])]

Min(a, b) == IF a <= b THEN a ELSE b

\* summary.ts:84-86, times 1000*n so that it stays an integer:
\* 0.7*(1 - index/n) + 0.3*min(1, length/100); index is 0-based
Score(sentence, index, n) ==
    700 * (n - index) + 3 * n * Min(100, StrLen(sentence))

\* summary.ts:83-85 is evaluated in IEEE-754 doubles. Doubles computed for
\* different exact values compare as the exact values do (for up to eleven
\* sentences and every length), and doubles computed for one and the same exact
\* value can differ in the last bit. Two sentences of a document have the same
\* exact value only from ten sentences on: with ten, when they are three
\* positions and 70 characters apart. LastBit is the computed double minus the
\* correctly rounded exact value, in units of the last bit, for the lengths 22
\* and 92 of ten-sentence documents (e.g. index 2, length 22 computes to
\* 0.6259999999999999 and index 5, length 92 to 0.626); elsewhere it decides no
\* comparison and is left at 0.
LastBit(index, n, length) ==
    CASE n = 10 /\ length = 22 /\ index \in {2, 3, 8, 9} -> -1
      [] n = 10 /\ length = 92 /\ index = 7 -> 1
      [] OTHER -> 0

\* summary.ts:85: the double, as an integer that compares as the doubles do
ComputedScore(sentence, index, n) ==
    4 * Score(sentence, index, n) + LastBit(index, n, Min(100, StrLen(sentence)))

\* summary.ts:81-87; idx (0-based original index) is kept for observation
\* only, the code's items are {sentence, score}
ScoreAll(sents) ==
    [k \in 1..Len(sents) |->
        [sentence |-> sents[k], score |-> ComputedScore(sents[k], k - 1, Len(sents)),
         idx |-> k - 1]]

\* a sort that puts the later of two equal scores first
RECURSIVE InsertByScoreUnstable(_, _)
InsertByScoreUnstable(sorted, item) ==
    IF sorted = <<>> THEN <<item>>
    ELSE IF Head(sorted).score > item.score
         THEN <<Head(sorted)>> \o InsertByScoreUnstable(Tail(sorted), item)
         ELSE <<item>> \o sorted

\* summary.ts:90: Array.prototype.sort with (a, b) => b.score - a.score; the
\* sort is stable, so equal scores keep their order
RECURSIVE InsertByScore(_, _)
InsertByScore(sorted, item) ==
    IF sorted = <<>> THEN <<item>>
    ELSE IF Head(sorted).score >= item.score
         THEN <<Head(sorted)>> \o InsertByScore(Tail(sorted), item)
         ELSE <<item>> \o sorted

RECURSIVE SortByScoreFrom(_, _)
SortByScoreFrom(items, sorted) ==
    IF items = <<>> THEN sorted
    ELSE SortByScoreFrom(Tail(items), InsertByScore(sorted, Head(items)))

SortByScore(items) == SortByScoreFrom(items, <<>>)

\* summary.ts:104
TargetMetric(type) == IF type = "chars" THEN "chars" ELSE "words"

\* summary.ts:108-110
SentenceLength(sentence, metric) ==
    IF metric = "chars" THEN StrLen(sentence) ELSE Len(SplitWs(sentence))

\* summary.ts:112-121, one pass of the loop body: the new selectedSentences
\* and currentLength, and whether the loop goes on
LoopBodyNoForce(item, selected, current, target, metric) ==
    LET sentenceLength == SentenceLength(item.sentence, metric)
    IN  IF (current + sentenceLength) * 10 <= target
        THEN [selected |-> Append(selected, item.sentence),
              current |-> current + sentenceLength, accepted |-> TRUE, goon |-> TRUE]
        ELSE [selected |-> selected, current |-> current,
              accepted |-> FALSE, goon |-> FALSE]

LoopBodyNoBreak(item, selected, current, target, metric) ==
    LET sentenceLength == SentenceLength(item.sentence, metric)
    IN  IF (current + sentenceLength) * 10 <= target
        THEN [selected |-> Append(selected, item.sentence),
              current |-> current + sentenceLength, accepted |-> TRUE, goon |-> TRUE]
        ELSE IF Len(selected) = 0
        THEN [selected |-> Append(selected, item.sentence), current |-> current,
              accepted |-> TRUE, goon |-> TRUE]
        ELSE [selected |-> selected, current |-> current,
              accepted |-> FALSE, goon |-> FALSE]

\* a loop that passes over a candidate that does not fit and goes on
LoopBodySkip(item, selected, current, target, metric) ==
    LET sentenceLength == SentenceLength(item.sentence, metric)
    IN  IF (current + sentenceLength) * 10 <= target
        THEN [selected |-> Append(selected, item.sentence),
              current |-> current + sentenceLength, accepted |-> TRUE, goon |-> TRUE]
        ELSE IF Len(selected) = 0
        THEN [selected |-> Append(selected, item.sentence), current |-> current,
              accepted |-> TRUE, goon |-> FALSE]
        ELSE [selected |-> selected, current |-> current,
              accepted |-> FALSE, goon |-> TRUE]

LoopBody(item, selected, current, target, metric) ==
    LET sentenceLength == SentenceLength(item.sentence, metric)
    IN  IF (current + sentenceLength) * 10 <= target
        THEN [selected |-> Append(selected, item.sentence),
              current |-> current + sentenceLength, accepted |-> TRUE, goon |-> TRUE]
        ELSE IF Len(selected) = 0
        THEN [selected |-> Append(selected, item.sentence), current |-> current,
              accepted |-> TRUE, goon |-> FALSE]
        ELSE [selected |-> selected, current |-> current,
              accepted |-> FALSE, goon |-> FALSE]

\* summary.ts:130: sentences.findIndex(s => s === sentence), 0-based
RECURSIVE FindIndexFrom(_, _, _)
FindIndexFrom(sents, sentence, k) ==
    IF k > Len(sents) THEN -1
    ELSE IF sents[k] = sentence THEN k - 1
    ELSE FindIndexFrom(sents, sentence, k + 1)

FindIndex(sents, sentence) == FindIndexFrom(sents, sentence, 1)

\* summary.ts:134: [...].sort((a, b) => a - b)
RECURSIVE InsertAsc(_, _)
InsertAsc(sorted, x) ==
    IF sorted = <<>> THEN <<x>>
    ELSE IF Head(sorted) <= x THEN <<Head(sorted)>> \o InsertAsc(Tail(sorted), x)
    ELSE <<x>> \o sorted

RECURSIVE SortAscFrom(_, _)
SortAscFrom(xs, sorted) ==
    IF xs = <<>> THEN sorted ELSE SortAscFrom(Tail(xs), InsertAsc(sorted, Head(xs)))

SortAsc(xs) == SortAscFrom(xs, <<>>)

\* summary.ts:129-134
SortedIndexes(sents, selected) ==
    SortAsc([k \in 1..Len(selected) |-> FindIndex(sents, selected[k])])

\* the collaborator's error passed on as it came
SummaryUnwrapped(message) == [kind |-> "error", message |-> <<message>>]

\* summary.ts:165
SummaryFailed(message) == [kind |-> "error", message |-> <<"Summary process failed: ", message>>]

SummaryIdle ==
    /\ input_text = <<>>
    /\ constraint_type = "null"
    /\ constraint_value = NoValue
    /\ textContent = <<>>
    /\ targetLength = 0
    /\ sentences = <<>>
    /\ sentenceScores = <<>>
    /\ selectedSentences = <<>>
    /\ currentLength = 0
    /\ acceptedIdx = <<>>
    /\ cursor = 0
    /\ sortedIndexes = <<>>
    /\ constraintDetails = <<>>
    /\ summary = <<>>
    /\ result = [kind |-> "none"]
    /\ spc = "idle"
    /\ fault = <<>>


\* a call of summaryText with input_text as the text resolution yields
SummaryInit ==
    /\ input_text \in TextsUpTo(DocAlphabet, MaxLen)
    /\ constraint_type = "null"
    /\ constraint_value = NoValue
    /\ textContent = <<>>
    /\ targetLength = 0
    /\ sentences = <<>>
    /\ sentenceScores = <<>>
    /\ selectedSentences = <<>>
    /\ currentLength = 0
    /\ acceptedIdx = <<>>
    /\ cursor = 0
    /\ sortedIndexes = <<>>
    /\ constraintDetails = <<>>
    /\ summary = <<>>
    /\ result = [kind |-> "none"]
    /\ spc = "resolve"
    /\ fault = <<>>

\* a sentence of n characters
LongSentence(n) == [k \in 1..n |-> IF k = n THEN "." ELSE "a"]

\* documents of ten sentences: one of 22 characters at position p, one of 92
\* at position q, and "a." at the other positions (positions are 0-based)
RankDoc(p, q) ==
    LET sentenceAt(k) == IF k = p THEN LongSentence(22)
                         ELSE IF k = q THEN <<"W", "a", ".">>
                         ELSE <<"a", ".">>
    IN  sentenceAt(0) \o sentenceAt(1) \o sentenceAt(2) \o sentenceAt(3) \o sentenceAt(4)
        \o sentenceAt(5) \o sentenceAt(6) \o sentenceAt(7) \o sentenceAt(8) \o sentenceAt(9)

RankDocs == {RankDoc(p, q) : p \in 0..6, q \in 3..9}

\* a call of summaryText on a ten-sentence document
RankInit ==
    /\ input_text \in RankDocs
    /\ constraint_type = "null"
    /\ constraint_value = NoValue
    /\ textContent = <<>>
    /\ targetLength = 0
    /\ sentences = <<>>
    /\ sentenceScores = <<>>
    /\ selectedSentences = <<>>
    /\ currentLength = 0
    /\ acceptedIdx = <<>>
    /\ cursor = 0
    /\ sortedIndexes = <<>>
    /\ constraintDetails = <<>>
    /\ summary = <<>>
    /\ result = [kind |-> "none"]
    /\ spc = "resolve"
    /\ fault = <<>>

\* summary.ts:21-29 with file-handler.ts:48-53: the text is taken as given, or
\* read from the file input_text names
SummaryResolve ==
    /\ spc = "resolve"
    /\ \E type \in ConstraintTypes, value \in ConstraintValues :
        /\ constraint_type' = type
        /\ constraint_value' = value
    /\ textContent' = input_text
    /\ spc' = "prime"
    /\ UNCHANGED <<input_text, targetLength, sentences, sentenceScores, selectedSentences,
                   currentLength, acceptedIdx, cursor, sortedIndexes, constraintDetails,
                   summary, result>>
    /\ UNCHANGED <<fvars, xvars, nvars>>

\* summary.ts:29 and 164-165 with file-handler.ts:18-24: is_file_path is true
\* and the file cannot be read
SummaryResolveFails ==
    /\ spc = "resolve"
    /\ fault' = <<"Failed to read file">>
    /\ result' = SummaryFailed(fault'[1])
    /\ spc' = "done"
    /\ UNCHANGED <<input_text, constraint_type, constraint_value, textContent, targetLength,
                   sentences, sentenceScores, selectedSentences, currentLength, acceptedIdx,
                   cursor, sortedIndexes, constraintDetails, summary>>
    /\ UNCHANGED <<fvars, pvars, dvars, nvars>>

\* summary.ts:40-56
SummaryPrime ==
    /\ spc = "prime"
    /\ targetLength' = TargetLength(constraint_type, constraint_value, textContent)
    /\ spc' = "extract"
    /\ UNCHANGED <<input_text, constraint_type, constraint_value, textContent,
                   sentences, sentenceScores, selectedSentences, currentLength, acceptedIdx,
                   cursor, sortedIndexes, constraintDetails, summary, result>>
    /\ UNCHANGED <<fvars, xvars, nvars>>

\* summary.ts:78-103
SummaryExtract ==
    /\ spc = "extract"
    /\ sentences' = MatchSentences(textContent)
    /\ sentenceScores' = SortByScore(ScoreAll(sentences'))
    /\ selectedSentences' = <<>>
    /\ currentLength' = 0
    /\ acceptedIdx' = <<>>
    /\ cursor' = 0
    /\ spc' = "select"
    /\ UNCHANGED <<input_text, constraint_type, constraint_value, textContent, targetLength,
                   sortedIndexes, constraintDetails, summary, result>>
    /\ UNCHANGED <<fvars, xvars, nvars>>

\* summary.ts:107-122: one item of the for-of loop
SummarySelect ==
    /\ spc = "select"
    /\ cursor < Len(sentenceScores)
    /\ LET item == sentenceScores[cursor + 1]
           r == LoopBody(item, selectedSentences, currentLength, targetLength,
                         TargetMetric(constraint_type))
       IN  /\ selectedSentences' = r.selected
           /\ currentLength' = r.current
           /\ acceptedIdx' = IF r.accepted THEN Append(acceptedIdx, item.idx) ELSE acceptedIdx
           /\ spc' = IF r.goon THEN "select" ELSE "restore"
    /\ cursor' = cursor + 1
    /\ UNCHANGED <<input_text, constraint_type, constraint_value, textContent, targetLength,
                   sentences, sentenceScores, sortedIndexes, constraintDetails, summary, result>>
    /\ UNCHANGED <<fvars, xvars, nvars>>

\* summary.ts:107: the loop has taken every item
SummarySelectEnd ==
    /\ spc = "select"
    /\ cursor >= Len(sentenceScores)
    /\ spc' = "restore"
    /\ UNCHANGED <<input_text, constraint_type, constraint_value, textContent, targetLength,
                   sentences, sentenceScores, selectedSentences, currentLength, acceptedIdx,
                   cursor, sortedIndexes, constraintDetails, summary, result>>
    /\ UNCHANGED <<fvars, xvars, nvars>>

\* summary.ts:129-151
SummaryRestore ==
    /\ spc = "restore"
    /\ sortedIndexes' = SortedIndexes(sentences, selectedSentences)
    /\ selectedSentences' = [k \in 1..Len(sortedIndexes') |-> sentences[sortedIndexes'[k] + 1]]
    /\ summary' = Trim(JoinSp(selectedSentences'))
    /\ constraintDetails' = <<[type |-> constraint_type, target |-> constraint_value,
                              achieved |-> currentLength]>>
    /\ spc' = "log"
    /\ UNCHANGED <<input_text, constraint_type, constraint_value, textContent, targetLength,
                   sentences, sentenceScores, currentLength, acceptedIdx, cursor, result>>
    /\ UNCHANGED <<fvars, xvars, nvars>>

\* summary.ts:161-163: the log is written
SummaryReturn ==
    /\ spc = "log"
    /\ result' = [kind |-> "ok", summary |-> summary]
    /\ spc' = "done"
    /\ UNCHANGED <<input_text, constraint_type, constraint_value, textContent, targetLength,
                   sentences, sentenceScores, selectedSentences, currentLength, acceptedIdx,
                   cursor, sortedIndexes, constraintDetails, summary>>
    /\ UNCHANGED <<fvars, xvars, nvars>>

\* summary.ts:161 and 164-165 with file-handler.ts:32-40: the log cannot be written
SummaryLogFails ==
    /\ spc = "log"
    /\ fault' = <<"Failed to write file">>
    /\ result' = SummaryFailed(fault'[1])
    /\ spc' = "done"
    /\ UNCHANGED <<input_text, constraint_type, constraint_value, textContent, targetLength,
                   sentences, sentenceScores, selectedSentences, currentLength, acceptedIdx,
                   cursor, sortedIndexes, constraintDetails, summary>>
    /\ UNCHANGED <<fvars, pvars, dvars, nvars>>

-----------------------------------------------------------------------------
(* The CallTool request handler, index.ts:149-232 *)

\* index.ts:155, 170, 185, 200: the cases of the switch
ToolNames == {"repair_text", "get_repair_log", "format_transcript", "summary_text"}

\* tool names a client can send: the four tools and one the switch does not know
RequestNames == ToolNames \cup {"translate_text"}

\* what a client can send as arguments: none at all, an object without the
\* required parameter, the parameter as a number, the parameter as a string
ArgShapes == {"undefined", "empty", "number", "string"}

\* index.ts:157, 172, 187, 202: the parameter each case checks
RequiredParam(name) == IF name = "get_repair_log" THEN "session_id" ELSE "input_text"

\* typeof args.<required parameter>
TypeofParam(args) ==
    CASE args = "number" -> "number" [] args = "string" -> "string" [] OTHER -> "undefined"

\* index.ts:157, 172, 187, 202: !args || typeof args.<parameter> !== 'string'
Invalid(args) == args = "undefined" \/ TypeofParam(args) # "string"

\* index.ts:158, 173, 188, 203
MissingParameter(name) == <<"Missing required parameter: ", RequiredParam(name)>>

\* index.ts:216-219
UnknownTool(name) == <<"Unknown tool: ", name>>

\* repair.ts:122, repair.ts:140 and 145, summary.ts:281, summary.ts:165: the
\* messages of the errors a tool can throw
ToolFaults(name) ==
    CASE name = "repair_text" ->
            {<<"Repair process failed: ", "Failed to read file">>,
             <<"Repair process failed: ", "Failed to write file">>}
      [] name = "get_repair_log" ->
            {<<"Failed to retrieve repair log: ", "Repair log not found for session ">>}
      [] name = "format_transcript" -> {FormattingFailed("Failed to read file").message}
      [] name = "summary_text" ->
            {SummaryFailed("Failed to read file").message,
             SummaryFailed("Failed to write file").message}

\* index.ts:161-168, 176-183, 191-198, 206-213: the result of a call that worked
ToolResult(name) ==
    [kind |-> "result", isError |-> FALSE,
     text |-> CASE name = "repair_text" -> <<"output_file">>
                [] name = "get_repair_log" -> <<"log_file">>
                [] name = "format_transcript" -> <<"formatted_text">>
                [] name = "summary_text" -> <<"summary">>]

\* an error that leaves the handler as a rejected promise
RethrownFault(message) == [kind |-> "fault", isError |-> TRUE, text |-> message]

\* index.ts:221-231: the catch block
ErrorResult(message) == [kind |-> "result", isError |-> TRUE, text |-> <<"Error: ">> \o message]

NoRequest == [name |-> "", args |-> "undefined"]

HandlerIdle ==
    /\ request = NoRequest
    /\ thrown = <<>>
    /\ hpc = "idle"
    /\ responses = <<>>

\* index.ts:149-150: a request arrives
HandlerReceive ==
    /\ hpc = "idle"
    /\ Len(responses) < MaxRequests
    /\ \E name \in RequestNames, args \in ArgShapes :
          request' = [name |-> name, args |-> args]
    /\ thrown' = <<>>
    /\ hpc' = "route"
    /\ UNCHANGED <<responses, fvars, svars, xvars, rvars>>

\* index.ts:154-158 (and the same in the other cases): the parameter check fails
HandlerRejectsParams ==
    /\ hpc = "route"
    /\ request.name \in ToolNames
    /\ Invalid(request.args)
    /\ thrown' = MissingParameter(request.name)
    /\ hpc' = "catch"
    /\ UNCHANGED <<request, responses, fvars, svars, xvars, rvars>>

\* index.ts:215-219: the default case
HandlerUnknownTool ==
    /\ hpc = "route"
    /\ request.name \notin ToolNames
    /\ thrown' = UnknownTool(request.name)
    /\ hpc' = "catch"
    /\ UNCHANGED <<request, responses, fvars, svars, xvars, rvars>>

\* index.ts:160, 175, 190, 205: the tool is awaited
HandlerCallsTool ==
    /\ hpc = "route"
    /\ request.name \in ToolNames
    /\ ~Invalid(request.args)
    /\ hpc' = "tool"
    /\ UNCHANGED <<request, thrown, responses, fvars, svars, xvars, rvars>>

\* index.ts:161-168 (and the same in the other cases): the tool returned
HandlerToolReturns ==
    /\ hpc = "tool"
    /\ responses' = Append(responses, [request |-> request, fault |-> <<>>,
                                       outcome |-> ToolResult(request.name)])
    /\ hpc' = "idle"
    /\ UNCHANGED <<request, thrown, fvars, svars, xvars, rvars>>

\* index.ts:160, 175, 190, 205: the awaited tool threw
HandlerToolThrows ==
    /\ hpc = "tool"
    /\ \E message \in ToolFaults(request.name) : thrown' = message
    /\ hpc' = "catch"
    /\ UNCHANGED <<request, responses, fvars, svars, xvars, rvars>>

\* index.ts:221-231
HandlerCatch ==
    /\ hpc = "catch"
    /\ responses' = Append(responses, [request |-> request, fault |-> thrown,
                                       outcome |-> ErrorResult(thrown)])
    /\ hpc' = "idle"
    /\ UNCHANGED <<request, thrown, fvars, svars, xvars, rvars>>

-----------------------------------------------------------------------------
(* repairText, getRepairLog and the Logger, repair.ts; FileHandler, file-handler.ts *)

\* the character of one decimal digit
DigitChar(d) ==
    CASE d = 0 -> "0" [] d = 1 -> "1" [] d = 2 -> "2" [] d = 3 -> "3" [] d = 4 -> "4"
      [] d = 5 -> "5" [] d = 6 -> "6" [] d = 7 -> "7" [] d = 8 -> "8" [] d = 9 -> "9"

TwoDigits(n) == <<DigitChar(n \div 10), DigitChar(n % 10)>>

\* file-handler.ts:60-61: new Date().toISOString() at second c of the clock
ToISOString(c) ==
    <<"2", "0", "2", "4", "-", "1", "2", "-", "0", "6", "T", "1", "4", ":">>
    \o TwoDigits(30 + (c \div 60)) \o <<":">> \o TwoDigits(c % 60)
    \o <<".", "0", "0", "0", "Z">>

\* file-handler.ts:61: .replace(/[-:.]/g, '')
StripPunctuation(s) == SelectSeq(s, LAMBDA ch : ch \notin {"-", ":", "."})

\* file-handler.ts:61: .slice(0, 14)
Slice14(s) == SubSeq(s, 1, Min(14, Len(s)))

\* file-handler.ts:59-62
generateSessionId(c) == Slice14(StripPunctuation(ToISOString(c)))

\* repair.ts:53-59 and 94: the corrections, on the words of the text
Replacement(word) ==
    CASE word = "recieve" -> "receive"
      [] word = "defiantly" -> "definitely"
      [] word = "irregardless" -> "regardless"
      [] word = "alot" -> "a lot"
      [] word = "seperate" -> "separate"
      [] OTHER -> word

\* repair.ts:62-96
Repaired(words) == [k \in 1..Len(words) |-> Replacement(words[k])]

\* repair.ts:90: corrections.length
CorrectionsMade(words) == Cardinality({k \in 1..Len(words) : Replacement(words[k]) # words[k]})

\* the texts repair_text is called with, as their words
RepairInputs == {<<"alot", "ok">>, <<"recieve">>}

\* repair.ts:104: 'repaired.txt', relative to the working directory
OutputFile == <<<<".">>, <<"repaired.txt">>>>

\* repair.ts:192-193: path.join(path.join('/logs', 'repairs'), `${sessionId}.log`)
LoggerPath(sessionId) == <<<<"logs">>, <<"repairs">>, sessionId \o <<".log">>>>

\* repair.ts:134: `/logs/repairs/${session_id}.log`; session_id is given by its
\* parts between slashes
LogPath(session_id) ==
    <<<<"logs">>, <<"repairs">>>>
    \o [k \in 1..Len(session_id) |->
            IF k = Len(session_id) THEN session_id[k] \o <<".log">> ELSE session_id[k]]

\* how the file system resolves a path: '..' leaves the directory before it
RECURSIVE ResolveFrom(_, _)
ResolveFrom(path, done) ==
    IF path = <<>> THEN done
    ELSE IF Head(path) = <<"..">>
         THEN ResolveFrom(Tail(path), SubSeq(done, 1, Len(done) - 1))
         ELSE ResolveFrom(Tail(path), Append(done, Head(path)))

Resolve(path) == ResolveFrom(path, <<>>)

\* file-handler.ts:18-24: readFile succeeds
Readable(path) == Resolve(path) \in DOMAIN files

\* file-handler.ts:32-40: the file system after writeFile
Written(path, content) ==
    [q \in DOMAIN files \cup {Resolve(path)} |-> IF q = Resolve(path) THEN content ELSE files[q]]

\* file-handler.ts:60: what new Date() shows when the server starts, two
\* seconds before the tens digit of the seconds changes
StartSecond == 8

\* the session ids get_repair_log is asked for: ids of the two ten-second
\* windows of the clock, plain and reached through '..'
QueryIds ==
    LET ids == {generateSessionId(StartSecond), generateSessionId(MaxClock)}
    IN  {<<id>> : id \in ids} \cup {<<<<"..">>, <<"repairs">>, id>> : id \in ids}

Slots == {1, 2}

IdleSlot == [pc |-> "idle", tool |-> "", id |-> 0, words |-> <<>>, sessionId |-> <<>>,
             second |-> 0, repairedText |-> <<>>, session_id |-> <<>>,
             result |-> [kind |-> "none"]]

RepairIdle ==
    /\ clock = StartSecond
    /\ files = <<>>
    /\ inv = [s \in Slots |-> IdleSlot]
    /\ started = 0
    /\ writes = {}
    /\ logged = {}
    /\ lookups = {}

\* repair.ts:122
RepairFailed(message) == [kind |-> "error", message |-> <<"Repair process failed: ", message>>]

\* repair.ts:140 and 145
LogNotFound(session_id) ==
    [kind |-> "error",
     message |-> <<"Failed to retrieve repair log: ", "Repair log not found for session ",
                   session_id>>]

\* the wall clock advances by a second
Tick ==
    /\ clock < MaxClock
    /\ clock' = clock + 1
    /\ UNCHANGED <<files, inv, started, writes, logged, lookups>>
    /\ UNCHANGED <<fvars, svars, xvars, hvars>>

\* repair.ts:24-29: repair_text is invoked and awaits the resolution
RepairStart(s) ==
    /\ inv[s].pc \in {"idle", "done"}
    /\ started < MaxInvocations
    /\ started' = started + 1
    /\ \E words \in RepairInputs :
          inv' = [inv EXCEPT ![s] = [IdleSlot EXCEPT !.pc = "resolve", !.tool = "repair_text",
                                                     !.id = started + 1, !.words = words]]
    /\ UNCHANGED <<clock, files, writes, logged, lookups>>
    /\ UNCHANGED <<fvars, svars, xvars, hvars>>

\* repair.ts:29-105: the text is resolved, the Logger takes its session id, the
\* corrections are applied and the write of the output file is awaited
RepairResolve(s) ==
    /\ inv[s].pc = "resolve"
    /\ inv[s].tool = "repair_text"
    /\ inv' = [inv EXCEPT ![s].sessionId = generateSessionId(clock),
                          ![s].second = clock,
                          ![s].repairedText = Repaired(inv[s].words),
                          ![s].pc = "write"]
    /\ UNCHANGED <<clock, files, started, writes, logged, lookups>>
    /\ UNCHANGED <<fvars, svars, xvars, hvars>>

\* repair.ts:29 and 122 with file-handler.ts:18-24: the input file cannot be read
RepairResolveFails(s) ==
    /\ inv[s].pc = "resolve"
    /\ inv[s].tool = "repair_text"
    /\ inv' = [inv EXCEPT ![s] = [IdleSlot EXCEPT !.result = RepairFailed("Failed to read file"),
                                                     !.pc = "done"]]
    /\ UNCHANGED <<clock, files, started, writes, logged, lookups>>
    /\ UNCHANGED <<fvars, svars, xvars, hvars>>

\* repair.ts:104-118: the output file is written and the log write is awaited
RepairWriteOutput(s) ==
    /\ inv[s].pc = "write"
    /\ files' = Written(OutputFile, inv[s].repairedText)
    /\ writes' = writes \cup {[path |-> Resolve(OutputFile), id |-> inv[s].id,
                               second |-> inv[s].second]}
    /\ inv' = [inv EXCEPT ![s].pc = "log"]
    /\ UNCHANGED <<clock, started, logged, lookups>>
    /\ UNCHANGED <<fvars, svars, xvars, hvars>>

\* repair.ts:105 and 122 with file-handler.ts:32-40: the output file cannot be written
RepairWriteFails(s) ==
    /\ inv[s].pc = "write"
    /\ inv' = [inv EXCEPT ![s] = [IdleSlot EXCEPT !.result = RepairFailed("Failed to write file"),
                                                     !.pc = "done"]]
    /\ UNCHANGED <<clock, files, started, writes, logged, lookups>>
    /\ UNCHANGED <<fvars, svars, xvars, hvars>>

\* repair.ts:114-120 with 192-221: the session log is written and the call returns
RepairWriteLog(s) ==
    /\ inv[s].pc = "log"
    /\ files' = Written(LoggerPath(inv[s].sessionId),
                        <<inv[s].sessionId, <<"direct_input">>,
                          <<CorrectionsMade(inv[s].words)>>>>)
    /\ writes' = writes \cup {[path |-> Resolve(LoggerPath(inv[s].sessionId)), id |-> inv[s].id,
                               second |-> inv[s].second]}
    /\ logged' = logged \cup {inv[s].sessionId}
    /\ inv' = [inv EXCEPT ![s] = [IdleSlot EXCEPT !.result = [kind |-> "ok",
                                                                output_file |-> OutputFile],
                                                     !.pc = "done"]]
    /\ UNCHANGED <<clock, started, lookups>>
    /\ UNCHANGED <<fvars, svars, xvars, hvars>>

\* repair.ts:114 and 122 with file-handler.ts:32-40: the log cannot be written
RepairLogFails(s) ==
    /\ inv[s].pc = "log"
    /\ inv' = [inv EXCEPT ![s] = [IdleSlot EXCEPT !.result = RepairFailed("Failed to write file"),
                                                     !.pc = "done"]]
    /\ UNCHANGED <<clock, files, started, writes, logged, lookups>>
    /\ UNCHANGED <<fvars, svars, xvars, hvars>>

\* repair.ts:131-138: get_repair_log is invoked and awaits the read
GetLogStart(s) ==
    /\ inv[s].pc \in {"idle", "done"}
    /\ started < MaxInvocations
    /\ started' = started + 1
    /\ \E session_id \in QueryIds :
          inv' = [inv EXCEPT ![s] = [IdleSlot EXCEPT !.pc = "read", !.tool = "get_repair_log",
                                                     !.id = started + 1,
                                                     !.session_id = session_id]]
    /\ UNCHANGED <<clock, files, writes, logged, lookups>>
    /\ UNCHANGED <<fvars, svars, xvars, hvars>>

\* repair.ts:137-146: the read ends and the call returns or throws
GetLogRead(s) ==
    /\ inv[s].pc = "read"
    /\ LET session_id == inv[s].session_id
           logPath == LogPath(session_id)
           res == IF Readable(logPath)
                  THEN [kind |-> "ok", log_file |-> logPath]
                  ELSE LogNotFound(session_id)
       IN  /\ inv' = [inv EXCEPT ![s] = [IdleSlot EXCEPT !.result = res, !.pc = "done"]]
           /\ lookups' = lookups \cup {[session_id |-> session_id, result |-> res,
                                        logged |-> \E id \in logged : session_id = <<id>>]}
    /\ UNCHANGED <<clock, files, started, writes, logged>>
    /\ UNCHANGED <<fvars, svars, xvars, hvars>>

RepairSpecInit == RepairIdle /\ HandlerIdle /\ FormatIdle /\ SummaryIdle

RepairSpecNext ==
    \/ Tick
    \/ \E s \in Slots :
          \/ RepairStart(s)
          \/ RepairResolve(s)
          \/ RepairResolveFails(s)
          \/ RepairWriteOutput(s)
          \/ RepairWriteFails(s)
          \/ RepairWriteLog(s)
          \/ RepairLogFails(s)
          \/ GetLogStart(s)
          \/ GetLogRead(s)

RepairSpec == RepairSpecInit /\ [][RepairSpecNext]_vars

HandlerSpecInit == HandlerIdle /\ RepairIdle /\ FormatIdle /\ SummaryIdle

HandlerSpecNext ==
    \/ HandlerReceive
    \/ HandlerRejectsParams
    \/ HandlerUnknownTool
    \/ HandlerCallsTool
    \/ HandlerToolReturns
    \/ HandlerToolThrows
    \/ HandlerCatch

HandlerSpec == HandlerSpecInit /\ [][HandlerSpecNext]_vars

SummarySpecInit == SummaryInit /\ FormatIdle /\ HandlerIdle /\ RepairIdle

SummarySpecNext ==
    \/ SummaryResolve
    \/ SummaryResolveFails
    \/ SummaryPrime
    \/ SummaryExtract
    \/ SummarySelect
    \/ SummarySelectEnd
    \/ SummaryRestore
    \/ SummaryReturn
    \/ SummaryLogFails

SummarySpec == SummarySpecInit /\ [][SummarySpecNext]_vars

RankSpecInit == RankInit /\ FormatIdle /\ HandlerIdle /\ RepairIdle

RankSpec == RankSpecInit /\ [][SummarySpecNext]_vars

FormatSpecInit == FormatInit /\ SummaryIdle /\ HandlerIdle /\ RepairIdle

FormatSpecNext == FormatFirst \/ FormatNext \/ FormatReturn

FormatSpec == FormatSpecInit /\ [][FormatSpecNext]_vars

TranscriptSpecInit == TranscriptInit /\ SummaryIdle /\ HandlerIdle /\ RepairIdle

TranscriptSpecNext ==
    \/ FormatResolve
    \/ FormatResolveFails
    \/ FormatParseLine
    \/ FormatParseEnd
    \/ FormatFirst
    \/ FormatNext
    \/ FormatReturn

TranscriptSpec == TranscriptSpecInit /\ [][TranscriptSpecNext]_vars

RepeatSpecInit == FormatIdle /\ SummaryIdle /\ HandlerIdle /\ RepairIdle

RepeatSpecNext == FormatCall \/ TranscriptSpecNext

RepeatSpec == RepeatSpecInit /\ [][RepeatSpecNext]_vars

-----------------------------------------------------------------------------
(* Claims about formatTranscript *)

\* gap of the k-th Segment (k > 1) to the one immediately before it
GapAt(k) == segments[k].time - segments[k - 1].time

RECURSIVE SegTokens(_, _)
SegTokens(segs, n) ==
    IF n = 0 THEN <<>> ELSE SegTokens(segs, n - 1) \o Tokens(segs[n].text)

RECURSIVE Assembled(_, _, _)
Assembled(segs, bs, n) ==
    IF n = 0 THEN <<>> ELSE Assembled(segs, bs, n - 1) \o bs[n] \o segs[n].text

\* C1: after any number of loop iterations the text holds exactly the tokens of
\* the Segment texts processed so far, in Segment order, and between two
\* consecutive Segment texts there is nothing but one space, one line break or
\* one blank-line break.
C1_TokensPreserved ==
    fpc \in {"loop", "done"} =>
        /\ Tokens(formattedText) = SegTokens(segments, i)
        /\ \A k \in 2..i : breaks[k] \in {SingleSpace, LineBreak, ParagraphBreak}
        /\ i >= 1 => breaks[1] = <<>>
        /\ formattedText = Assembled(segments, breaks, i)

C1_Witness ==
    /\ fpc = "done"
    /\ Len(segments) = MaxSegs
    /\ Len(SegTokens(segments, i)) >= 4
    /\ \E k \in 2..i : breaks[k] = SingleSpace /\ segments[k].text = <<"a", SP, "b">>
    /\ \E k \in 2..i : breaks[k] = ParagraphBreak

\* the separator the gap rule prescribes
GapBreak(gap, pg, lg) ==
    IF gap > pg THEN ParagraphBreak
    ELSE IF gap > lg THEN LineBreak
    ELSE SingleSpace

RECURSIVE ExpectedText(_, _, _, _)
ExpectedText(segs, n, pg, lg) ==
    IF n = 0 THEN <<>>
    ELSE IF n = 1 THEN segs[1].text
    ELSE ExpectedText(segs, n - 1, pg, lg)
            \o GapBreak(segs[n].time - segs[n - 1].time, pg, lg)
            \o segs[n].text

\* C2: the first Segment has no leading separator; every later Segment is
\* preceded by a paragraph break if its gap to the preceding Segment exceeds
\* paragraph_gap, else a line break if it exceeds line_gap, else exactly one
\* space, whatever the text so far ends with and the next text starts with.
C2_SeparatorByGap ==
    fpc \in {"loop", "done"} =>
        /\ formattedText = ExpectedText(segments, i, paragraph_gap, line_gap)
        /\ \A k \in 2..i : breaks[k] = GapBreak(GapAt(k), paragraph_gap, line_gap)
        /\ i >= 1 => breaks[1] = <<>>

C2_Witness ==
    /\ fpc = "done"
    /\ i = MaxSegs
    /\ \E k \in 2..i : GapAt(k) < 0 /\ breaks[k] = SingleSpace
    /\ \E k \in 2..i : GapAt(k) = line_gap + 1 /\ breaks[k] = LineBreak
    /\ segments[1].text = <<"a", ",">>

Severity(sep) ==
    IF sep = ParagraphBreak THEN 2 ELSE IF sep = LineBreak THEN 1 ELSE 0

\* C3: with the thresholds of one call, in either relative order, a Segment
\* with a larger gap never gets a less severe break than one with a smaller
\* gap (inline < line < paragraph).
C3_GapMonotonic ==
    \A j, k \in 2..i :
        GapAt(j) <= GapAt(k) => Severity(breaks[j]) <= Severity(breaks[k])

C3_Witness ==
    /\ fpc = "done"
    /\ line_gap > paragraph_gap
    /\ \E j, k \in 2..i :
        /\ GapAt(j) < GapAt(k)
        /\ Severity(breaks[j]) = 0
        /\ Severity(breaks[k]) = 2

-----------------------------------------------------------------------------
(* Claims about summaryText *)

\* positions of summaryText at which a stage has run
Restored == constraintDetails # <<>>
LoopDone == spc = "restore" \/ Restored
Extracted == spc = "select" \/ LoopDone
Primed == spc = "extract" \/ Extracted

\* number of words (whitespace-separated tokens) of a text
Words(s) == Len(Tokens(s))

RECURSIVE Concat(_)
Concat(ss) == IF ss = <<>> THEN <<>> ELSE Head(ss) \o Concat(Tail(ss))

\* the sentences at the given 0-based original positions
SentencesAt(idxs) == [k \in 1..Len(idxs) |-> sentences[idxs[k] + 1]]

\* C4: the excerpt is the accepted sentences, each at its own original
\* position, in ascending original order, joined by single spaces; also when
\* two sentences of the document have the same text.
C4_OriginalOrder ==
    Restored =>
        /\ selectedSentences = SentencesAt(SortAsc(acceptedIdx))
        /\ summary = Trim(JoinSp(SentencesAt(SortAsc(acceptedIdx))))

\* the candidate the selection loop visits first
TopItem == sentenceScores[1]

\* C5: words constraint with a positive value V and at least one sentence: the
\* excerpt is not empty and has at most V words, unless the top-ranked
\* sentence alone has more than V words, and then the excerpt is that sentence.
C5_WordsBudget ==
    (/\ Restored
     /\ constraint_type = "words"
     /\ constraint_value # NoValue
     /\ constraint_value[1] > 0
     /\ sentences # <<>>) =>
        /\ summary # <<>>
        /\ \/ Words(summary) <= constraint_value[1]
           \/ /\ Words(TopItem.sentence) > constraint_value[1]
              /\ selectedSentences = <<TopItem.sentence>>
              /\ summary = Trim(TopItem.sentence)

C5_Witness ==
    /\ spc = "done"
    /\ result.kind = "ok"
    /\ constraint_type = "words"
    /\ constraint_value = <<2>>
    /\ Len(sentences) = 3
    /\ acceptedIdx = <<0, 2>>
    /\ Words(summary) = 2

\* C6: chars constraint: the excerpt string is no longer than the Budget,
\* except when the first candidate alone exceeds the Budget and is the only
\* sentence selected.
C6_CharsBudget ==
    (Restored /\ constraint_type = "chars" /\ sentences # <<>>) =>
        \/ StrLen(summary) * 10 <= targetLength
        \/ /\ StrLen(TopItem.sentence) * 10 > targetLength
           /\ Len(selectedSentences) = 1

\* C7: a call that extracts zero sentences ends in an error, never in a
\* returned (empty) excerpt.
C7_ZeroSentencesFail ==
    (spc = "done" /\ Restored /\ sentences = <<>>) => result.kind = "error"

\* C8: with at least one sentence the loop accepts at least one, whatever the
\* Budget; when the first candidate alone exceeds the Budget, it is the one
\* and only accepted sentence.
C8_AtLeastOne ==
    (LoopDone /\ sentences # <<>>) =>
        /\ Len(selectedSentences) >= 1
        /\ Len(acceptedIdx) >= 1
        /\ SentenceLength(TopItem.sentence, TargetMetric(constraint_type)) * 10 > targetLength
            => /\ acceptedIdx = <<TopItem.idx>>
               /\ selectedSentences = <<TopItem.sentence>>

C8_Witness ==
    /\ spc = "restore"
    /\ targetLength < 0
    /\ Len(sentences) >= 2
    /\ acceptedIdx = <<0>>
    /\ cursor = 1

\* the Constraint Resolver table, in tenths, from the counts of the document
TableBudget(type, value, totalWords, totalChars) ==
    IF value = NoValue
    THEN IF type = "chars" THEN 3 * totalChars ELSE 3 * totalWords
    ELSE CASE type = "time" -> 25 * value[1]
           [] type = "chars" -> 10 * value[1]
           [] type = "words" -> 10 * value[1]
           [] OTHER -> 3 * totalWords

\* C9: for every constraint type and every positive or absent value the
\* Budget is the one of the table: time v*150/60 words, chars v, words v, and
\* 0.3*totalWords when the value is absent or the type is the default, but
\* 0.3*totalChars for chars with the value absent.
C9_BudgetTable ==
    (Primed /\ (constraint_value = NoValue \/ constraint_value[1] > 0)) =>
        targetLength = TableBudget(constraint_type, constraint_value,
                                   wordCount(textContent), contentLength(textContent))

C9_Witness ==
    /\ spc = "extract"
    /\ constraint_type = "chars"
    /\ constraint_value = NoValue
    /\ targetLength = 3 * 94
    /\ wordCount(textContent) = 3

\* a text without its leading terminators and without what follows its last
\* terminator
RECURSIVE DropLeadingTerminators(_)
DropLeadingTerminators(t) ==
    IF t # <<>> /\ Head(t) \in Terminators THEN DropLeadingTerminators(Tail(t)) ELSE t

RECURSIVE DropTail(_)
DropTail(t) ==
    IF t # <<>> /\ t[Len(t)] \notin Terminators
    THEN DropTail(SubSeq(t, 1, Len(t) - 1)) ELSE t

Core(t) == DropTail(DropLeadingTerminators(t))

\* C10, as stated: the sentences concatenated reproduce the whole text.
C10_Partition ==
    Extracted => Concat(sentences) = textContent

\* C10, amended: the sentences are disjoint and contiguous, in original
\* order, and concatenated they reproduce the text without its leading
\* terminators and without the characters after its last terminator; that is
\* the whole text exactly when the text is empty or starts with a
\* non-terminator and ends with a terminator.
C10_CorePartition ==
    Extracted =>
        LET spans == MatchSpans(textContent, 0)
        IN  /\ Len(spans) = Len(sentences)
            /\ \A k \in 1..Len(spans) :
                /\ 1 <= spans[k][1]
                /\ spans[k][1] < spans[k][2]
                /\ spans[k][2] <= Len(textContent)
                /\ sentences[k] = SubSeq(textContent, spans[k][1], spans[k][2])
                /\ k > 1 => spans[k][1] = spans[k - 1][2] + 1
            /\ Concat(sentences) = Core(textContent)
            /\ (Concat(sentences) = textContent) <=>
                    \/ textContent = <<>>
                    \/ /\ Head(textContent) \notin Terminators
                       /\ textContent[Len(textContent)] \in Terminators

C10_Witness ==
    /\ spc = "select"
    /\ Len(sentences) = 2
    /\ Head(textContent) \in Terminators
    /\ textContent[Len(textContent)] \notin Terminators
    /\ Concat(sentences) # textContent

-----------------------------------------------------------------------------
(* Claims about the Segment Parser *)

\* the parse loop has taken every line
Parsed == fpc = "loop" \/ (fpc = "done" /\ fresult.kind = "ok")

\* the tokens of a line outside its matched timestamp
LineContent(line) ==
    LET p == MatchPos(line)
    IN  IF p = 0 THEN Tokens(line)
        ELSE Tokens(SubSeq(line, 1, p - 1)) \o Tokens(SubSeq(line, p + 10, Len(line)))

RECURSIVE LinesContent(_, _)
LinesContent(ls, n) ==
    IF n = 0 THEN <<>> ELSE LinesContent(ls, n - 1) \o LineContent(ls[n])

\* C11: after the parse loop the Segment texts hold, in order, every token of
\* every line that is not the line's matched [HH:MM:SS] timestamp, also for
\* lines where other text precedes the timestamp.
C11_NoTextDropped ==
    Parsed => SegTokens(segments, Len(segments)) = LinesContent(lines, Len(lines))

\* C12: any two calls of formatTranscript that returned and had the same input
\* text, paragraph_gap and line_gap returned the same formatted text, whatever
\* calls ran before or between them.
C12_Deterministic ==
    \A m, n \in 1..Len(returned) :
        (/\ returned[m].text = returned[n].text
         /\ returned[m].paragraph_gap = returned[n].paragraph_gap
         /\ returned[m].line_gap = returned[n].line_gap)
        => returned[m].formatted_text = returned[n].formatted_text

\* the same call returned first and third, with a call of another text, one
\* that leaves Segments behind, in between
C12_Witness ==
    /\ Len(returned) = 3
    /\ returned[1].text = returned[3].text
    /\ returned[1].paragraph_gap = returned[3].paragraph_gap
    /\ returned[2].text # returned[1].text
    /\ returned[2].formatted_text # <<>>
    /\ returned[3].formatted_text # <<>>

-----------------------------------------------------------------------------
(* Claims about the request handler *)

\* C13: every handled tool call ends in a returned result, never in a fault
\* that leaves the handler; a missing or non-string required parameter, an
\* unknown tool name and a failure inside a tool all give a result with isError
\* true whose text is 'Error: ' followed by the failure description.
C13_ErrorsAreResults ==
    \A k \in 1..Len(responses) :
        LET r == responses[k]
        IN  /\ r.outcome.kind = "result"
            /\ r.fault # <<>> =>
                  /\ r.outcome.isError
                  /\ r.outcome.text = <<"Error: ">> \o r.fault
            /\ r.request.name \notin ToolNames => r.fault = UnknownTool(r.request.name)
            /\ (r.request.name \in ToolNames /\ Invalid(r.request.args))
                  => r.fault = MissingParameter(r.request.name)
            /\ r.fault = <<>> => ~Invalid(r.request.args) /\ ~r.outcome.isError

\* one call failed inside a tool and another failed the parameter check
C13_Witness ==
    /\ Len(responses) = 2
    /\ responses[1].fault \in ToolFaults("summary_text")
    /\ responses[1].outcome.isError
    /\ responses[2].request = [name |-> "get_repair_log", args |-> "number"]
    /\ responses[2].outcome.text = <<"Error: ", "Missing required parameter: ", "session_id">>

-----------------------------------------------------------------------------
(* Claims about the failures of summaryText *)

\* C14: when content resolution fails, or the session log cannot be written
\* after the excerpt was computed, summaryText ends with one error whose
\* message is 'Summary process failed: ' followed by the collaborator's
\* message; the result carries no summary, and once it has failed the call
\* takes no further step (no retry).
C14_FailureWrapped ==
    /\ [](fault # <<>> =>
            /\ spc = "done"
            /\ result = [kind |-> "error",
                         message |-> <<"Summary process failed: ", fault[1]>>])
    /\ [][fault # <<>> => UNCHANGED svars]_vars

\* the log write failed after a non-empty excerpt had been computed
C14_Witness ==
    /\ spc = "done"
    /\ fault = <<"Failed to write file">>
    /\ summary # <<>>
    /\ Restored
    /\ result.kind = "error"

-----------------------------------------------------------------------------
(* Claims about the files shared by concurrent invocations *)

\* the file is a session log
IsLog(path) == Len(path) = 3 /\ path[1] = <<"logs">>

\* C15: a file that two invocations both write is a session log, and the two
\* invocations took their session ids within the same second of the clock.
C15_OnlyLogsShared ==
    \A a, b \in writes :
        (a.path = b.path /\ a.id # b.id) => IsLog(a.path) /\ a.second = b.second

-----------------------------------------------------------------------------
(* Claims about getRepairLog *)

\* C18: get_repair_log(S) returns /logs/repairs/S.log exactly when a
\* repair_text invocation whose Logger held session id S has completed its log
\* write; otherwise it fails saying that the repair log was not found for
\* session S.
C18_FoundIffLogged ==
    \A l \in lookups :
        /\ l.result.kind = "ok" <=> l.logged
        /\ l.result.kind = "ok" => l.result.log_file = LogPath(l.session_id)
        /\ l.result.kind # "ok" => l.result = LogNotFound(l.session_id)

-----------------------------------------------------------------------------
(* Claims about the ranking *)

\* the ranking holds every sentence once
RankingComplete ==
    /\ Len(sentenceScores) = Len(sentences)
    /\ \A k \in 1..Len(sentences) :
          \E j \in 1..Len(sentenceScores) :
              /\ sentenceScores[j].idx = k - 1
              /\ sentenceScores[j].sentence = sentences[k]

\* the exact value of 0.7*(1 - i/N) + 0.3*min(1, length/100), times 1000*N
ExactScore(item) == Score(item.sentence, item.idx, Len(sentences))

\* C16: the loop visits the sentences by compositeScore = 0.7*(1 - i/N) +
\* 0.3*min(1, length/100) descending, and two sentences with equal
\* compositeScore in ascending original index.
C16_ExactOrder ==
    Extracted =>
        /\ RankingComplete
        /\ \A j, k \in 1..Len(sentenceScores) :
              j < k => \/ ExactScore(sentenceScores[j]) > ExactScore(sentenceScores[k])
                       \/ /\ ExactScore(sentenceScores[j]) = ExactScore(sentenceScores[k])
                          /\ sentenceScores[j].idx < sentenceScores[k].idx

\* C16 (amended): the loop visits the sentences by the compositeScore that
\* summary.ts:83-85 computes in double precision, descending, and two sentences
\* whose computed scores are equal in ascending original index.
C16_ComputedOrder ==
    Extracted =>
        /\ RankingComplete
        /\ \A j, k \in 1..Len(sentenceScores) :
              j < k => \/ sentenceScores[j].score > sentenceScores[k].score
                       \/ /\ sentenceScores[j].score = sentenceScores[k].score
                          /\ sentenceScores[j].idx < sentenceScores[k].idx

\* ten sentences, two of them with equal computed scores: the earlier one is
\* visited right before the later one
C16_Witness ==
    /\ Extracted
    /\ Len(sentenceScores) = 10
    /\ \E j \in 1..9 :
          /\ sentenceScores[j].score = sentenceScores[j + 1].score
          /\ sentenceScores[j].idx + 3 = sentenceScores[j + 1].idx

-----------------------------------------------------------------------------
(* Claims about the selection loop *)

\* the measured length of the first k candidates of the ranking
RECURSIVE PrefixLength(_)
PrefixLength(k) ==
    IF k = 0 THEN 0
    ELSE PrefixLength(k - 1)
         + SentenceLength(sentenceScores[k].sentence, TargetMetric(constraint_type))

\* the first k candidates fit the Budget together
PrefixFits(k) == PrefixLength(k) * 10 <= targetLength

\* the length of the longest prefix of the ranking that fits the Budget
FitCount ==
    LET fitting == {k \in 1..Len(sentenceScores) : \A j \in 1..k : PrefixFits(j)}
    IN  IF fitting = {} THEN 0 ELSE CHOOSE k \in fitting : \A j \in fitting : j <= k

\* C17: the accepted sentences are a prefix of the ranking: the longest prefix
\* whose accumulated length is at most the Budget, or the first candidate alone
\* when that prefix is empty; a candidate after one that did not fit is not
\* accepted, even if it would fit.
C17_LongestPrefix ==
    LoopDone =>
        LET count == IF FitCount = 0 /\ sentenceScores # <<>> THEN 1 ELSE FitCount
        IN  /\ acceptedIdx = [k \in 1..count |-> sentenceScores[k].idx]
            /\ spc = "restore" =>
                  selectedSentences = [k \in 1..count |-> sentenceScores[k].sentence]

\* the second candidate did not fit and the third, which would have fitted the
\* rest of the Budget, was not accepted
C17_Witness ==
    /\ LoopDone
    /\ Len(sentenceScores) = 3
    /\ acceptedIdx = <<sentenceScores[1].idx>>
    /\ PrefixFits(1)
    /\ ~PrefixFits(2)
    /\ (PrefixLength(1) + SentenceLength(sentenceScores[3].sentence,
                                         TargetMetric(constraint_type))) * 10 <= targetLength

\* the measured length of the accepted sentences together
RECURSIVE AcceptedLength(_)
AcceptedLength(k) ==
    IF k = 0 THEN 0
    ELSE AcceptedLength(k - 1)
         + SentenceLength(sentences[acceptedIdx[k] + 1], TargetMetric(constraint_type))

\* C19: the 'achieved' length handed to the session logger is the sum of the
\* measured lengths of the selected sentences, also when the first candidate
\* alone was accepted although it exceeds the Budget.
C19_AchievedIsSelectedLength ==
    Restored => constraintDetails[1].achieved = AcceptedLength(Len(acceptedIdx))

====
